---- MODULE Spec2Model ----
(***************************************************************************)
(* A model of the lot/plan -> ArcGIS -> KML backend:                       *)
(*   services/parcel_resolver.py  normalize_lotplan, resolve_parcels       *)
(*   services/arcgis_client.py    arcgis_query, fetch_all_features         *)
(*   main.py                      parcel_resolve, intersect                *)
(*   utils/geo.py                 geojson_to_esri_polygon, ..._envelope    *)
(* Texts are sequences of one-character strings.  Each part of the         *)
(* program has its own specification over the shared variables:            *)
(*   SpecNorm       normalize_lotplan applied to bounded texts             *)
(*   SpecFetch      the pagination loop against an arbitrary service       *)
(*   SpecIntersect  the /intersect handler                                 *)
(*   SpecResolve    /parcel/resolve and resolve_parcels                    *)
(*   SpecCodec      a polygon encoded for the service and decoded again    *)
(*   SpecQuery      one arcgis_query call with the caller's parameters     *)
(*   SpecRequest    one request, to /intersect or to the resolver          *)
(***************************************************************************)
EXTENDS Integers, Sequences, FiniteSets, TLC

VARIABLES
    \* normalize_lotplan
    text,           \* the argument of normalize_lotplan
    normalized,     \* its result (a list of texts), "pending" before the call
    \* fetch_all_features, one instance per call id
    f_pc,           \* "idle" | "loop" | "await" | "returned" | "raised"
    result_offset,  \* the local result_offset
    features,       \* the local features list
    sent,           \* the resultOffset of every request posted, in order
    pages,          \* every response received, in order
    f_result,       \* what the caller gets: [status, value]
    \* intersect
    i_pc,           \* "start" | "query" | "done"
    i_req,          \* the request body: [layer_ids, parcel]
    i_idx,          \* the position of lid in body.layer_ids
    i_attempt,      \* which of the three attempts comes next for this layer
    i_errors,       \* the local query_errors
    i_results,      \* the local results
    i_queries,      \* every fetch_all_features call made, with its outcome
    i_response,     \* the HTTP response
    \* parcel_resolve / resolve_parcels
    r_settings,     \* [CADASTRE_URL, CADASTRE_LOTPLAN_FIELD]: whether each is set
    r_pc,           \* "start" | "ident" | "tier" | "collect" | "union" | "done"
    r_req,          \* [entry, text, lotplans]: /parcel/resolve with a text, or
                    \* resolve_parcels called with a list
    r_lotplans,     \* the argument of resolve_parcels
    r_idx,          \* the position of lp in lotplans
    r_tier,         \* the query tier that comes next for lp
    r_feats,        \* the local feats
    r_log,          \* the tiers queried for lp so far, with their outcomes
    r_geoms,        \* the local geoms
    r_matched,      \* the local matched
    r_queries,      \* every fetch_all_features call made: [idx, tier, lotplan]
    r_used,         \* per identifier gone through: [idx, feats] (feats as converted)
    r_anyok,        \* some fetch_all_features call returned without raising
    r_union,        \* what unary_union and MultiPolygon(...) did: [union, assemble]
    r_response,     \* what the caller gets
    \* a polygon through the geometry conversions
    c_pc,           \* "start" | "encoded" | "decoded"
    c_poly,         \* the GeoJSON polygon
    c_esri,         \* geojson_to_esri_polygon(c_poly)
    c_decoder,      \* which decoder was applied to c_esri
    c_geojson,      \* the result of esri_polygon_to_geojson
    c_polys,        \* the result of _esri_polygon_to_polygons
    \* arcgis_query
    q_pc,           \* "start" | "await" | "returned" | "raised"
    q_url,          \* the url argument, as path segments and slashes
    q_params,       \* the params argument
    q_sent          \* the HTTP request made: [method, url, data]

normVars == <<text, normalized>>
fetchVars == <<f_pc, result_offset, features, sent, pages, f_result>>
intersectVars == <<i_pc, i_req, i_idx, i_attempt, i_errors, i_results,
                   i_queries, i_response>>
resolveVars == <<r_settings, r_pc, r_req, r_lotplans, r_idx, r_tier, r_feats,
                 r_log, r_geoms, r_matched, r_queries, r_used, r_anyok,
                 r_union, r_response>>
codecVars == <<c_pc, c_poly, c_esri, c_decoder, c_geojson, c_polys>>
queryVars == <<q_pc, q_url, q_params, q_sent>>
vars == <<normVars, fetchVars, intersectVars, resolveVars, codecVars, queryVars>>

(***************************************************************************)
(* Characters and the str methods the code uses.                           *)
(***************************************************************************)
UpperLetters == {"L", "O", "T", "R", "P"}
LowerLetters == {"l", "o", "t", "r", "p"}
Letters == UpperLetters \cup LowerLetters
Digits == {"1", "2", "3", "4", "5", "6", "7"}
Alnum == Letters \cup Digits
\* what \s and str.strip() treat as whitespace
Whitespace == {" ", "\t"}

\* str.upper() on one character
UpperChar(c) ==
    CASE c = "l" -> "L"
      [] c = "o" -> "O"
      [] c = "t" -> "T"
      [] c = "r" -> "R"
      [] c = "p" -> "P"
      [] OTHER -> c

\* str.upper()
Upper(s) == [k \in 1..Len(s) |-> UpperChar(s[k])]

\* the first index j >= i with s[j] outside class (Len(s)+1 if there is none):
\* where a greedy run of the class that starts at i ends
SkipWhile(s, i, class) ==
    CHOOSE j \in i..(Len(s) + 1) :
        /\ \A k \in i..(j - 1) : s[k] \in class
        /\ (j = Len(s) + 1 \/ s[j] \notin class)

\* the last index j <= Len(s) with s[j] outside class (0 if there is none)
SkipBack(s, class) ==
    CHOOSE j \in 0..Len(s) :
        /\ \A k \in (j + 1)..Len(s) : s[k] \in class
        /\ (j = 0 \/ s[j] \notin class)

\* str.strip()
Strip(s) ==
    LET a == SkipWhile(s, 1, Whitespace)
        b == SkipBack(s, Whitespace)
    IN  IF a > b THEN << >> ELSE SubSeq(s, a, b)

\* str.lstrip("L")
LStripL(s) == SubSeq(s, SkipWhile(s, 1, {"L"}), Len(s))

\* str.replace(" ", ""): only the space character is removed
RemoveSpaces(s) == SelectSeq(s, LAMBDA c : c # " ")

\* "/" in s
HasSlash(s) == \E k \in 1..Len(s) : s[k] = "/"

\* the index of the first "/" of s (s.split("/", 1) splits there)
FirstSlash(s) == CHOOSE k \in 1..Len(s) : s[k] = "/" /\ \A j \in 1..(k - 1) : s[j] # "/"

(***************************************************************************)
(* The three regular expressions.  Each operator returns the match as      *)
(* [ok, lot, plan] with the two groups, following the backtracking order   *)
(* of Python's re (greedy prefix first, lazy lot in LP_TIGHT).             *)
(***************************************************************************)
NoMatch == [ok |-> FALSE, lot |-> << >>, plan |-> << >>]

\* ([A-Za-z]{1,4}\s*\d{1,7})\s*$ from index i: [ok, last] with last the index
\* of the group's last character
PlanAt(s, i) ==
    LET a == SkipWhile(s, i, Letters)
        b == SkipWhile(s, a, Whitespace)
        c == SkipWhile(s, b, Digits)
        d == SkipWhile(s, c, Whitespace)
    IN  [ok |-> /\ i <= Len(s)
                /\ a - i >= 1 /\ a - i <= 4
                /\ c - b >= 1 /\ c - b <= 7
                /\ d = Len(s) + 1,
         last |-> c - 1]

\* ^\s*([A-Za-z0-9]+)\s*/\s*([A-Za-z]{1,4}\s*\d{1,7})\s*$
LP_SLASH(s) ==
    LET i1 == SkipWhile(s, 1, Whitespace)
        i2 == SkipWhile(s, i1, Alnum)
        i3 == SkipWhile(s, i2, Whitespace)
        i4 == SkipWhile(s, i3 + 1, Whitespace)
    IN  IF /\ i2 > i1
           /\ i3 <= Len(s)
           /\ s[i3] = "/"
           /\ PlanAt(s, i4).ok
        THEN [ok |-> TRUE, lot |-> SubSeq(s, i1, i2 - 1),
              plan |-> SubSeq(s, i4, PlanAt(s, i4).last)]
        ELSE NoMatch

\* the places where (?:L(?:OT)?\s*)? can end when it starts at i, in the order
\* the matcher tries them: after "LOT", after "L", and the empty match
PrefixEnds(s, i) ==
    LET isL == i <= Len(s) /\ UpperChar(s[i]) = "L"
        isLOT == /\ i + 2 <= Len(s)
                 /\ UpperChar(s[i]) = "L"
                 /\ UpperChar(s[i + 1]) = "O"
                 /\ UpperChar(s[i + 2]) = "T"
    IN  (IF isLOT THEN <<SkipWhile(s, i + 3, Whitespace)>> ELSE << >>)
        \o (IF isL THEN <<SkipWhile(s, i + 1, Whitespace)>> ELSE << >>)
        \o <<i>>

\* ([A-Za-z0-9]+)\s+([A-Za-z]{1,4}\s*\d{1,7})\s*$ with the lot starting at p
SpaceAt(s, p) ==
    LET q == SkipWhile(s, p, Alnum)
        r == SkipWhile(s, q, Whitespace)
    IN  IF q > p /\ r > q /\ PlanAt(s, r).ok
        THEN [ok |-> TRUE, lot |-> SubSeq(s, p, q - 1),
              plan |-> SubSeq(s, r, PlanAt(s, r).last)]
        ELSE NoMatch

\* ([0-9A-Za-z]+?)([A-Za-z]{1,4}\s*\d{1,7})\s*$ with the lot starting at p:
\* the lazy lot is the shortest one after which the plan matches
TightAt(s, p) ==
    LET fits(k) == /\ \A j \in p..(p + k - 1) : s[j] \in Alnum
                   /\ PlanAt(s, p + k).ok
        lens == {k \in 1..(Len(s) + 1 - p) : fits(k)}
    IN  IF p <= Len(s) /\ lens # {}
        THEN LET k == CHOOSE x \in lens : \A y \in lens : x <= y
             IN  [ok |-> TRUE, lot |-> SubSeq(s, p, p + k - 1),
                  plan |-> SubSeq(s, p + k, PlanAt(s, p + k).last)]
        ELSE NoMatch

\* the first alternative of the optional prefix under which the rest matches
FirstMatch(ms) ==
    IF \E k \in 1..Len(ms) : ms[k].ok
    THEN ms[CHOOSE k \in 1..Len(ms) : ms[k].ok /\ \A j \in 1..(k - 1) : ~ms[j].ok]
    ELSE NoMatch

\* ^\s*(?:L(?:OT)?\s*)?([A-Za-z0-9]+)\s+([A-Za-z]{1,4}\s*\d{1,7})\s*$
LP_SPACE(s) ==
    LET ends == PrefixEnds(s, SkipWhile(s, 1, Whitespace))
    IN  FirstMatch([k \in 1..Len(ends) |-> SpaceAt(s, ends[k])])

\* ^\s*(?:L(?:OT)?\s*)?([0-9A-Za-z]+?)([A-Za-z]{1,4}\s*\d{1,7})\s*$
LP_TIGHT(s) ==
    LET ends == PrefixEnds(s, SkipWhile(s, 1, Whitespace))
    IN  FirstMatch([k \in 1..Len(ends) |-> TightAt(s, ends[k])])

\* f"{lot}/{plan}"
LotPlan(lot, plan) == lot \o <<"/">> \o plan

\* lot = m.group(1).upper().lstrip("L"); plan = m.group(2).upper().replace(" ", "")
FromMatch(m) == <<LotPlan(LStripL(Upper(m.lot)), RemoveSpaces(Upper(m.plan)))>>

\* branch 4: split on the first slash, strip and uppercase both sides, remove
\* the spaces of the plan side; the lot keeps a leading "L"
FromNaiveSlash(s) ==
    LET k == FirstSlash(s)
        lot == Upper(Strip(SubSeq(s, 1, k - 1)))
        plan == Upper(Strip(SubSeq(s, k + 1, Len(s))))
    IN  <<LotPlan(lot, RemoveSpaces(plan))>>

\* which of the four shapes decides s = text.strip(): "slash", "space", "tight",
\* "naive" or "none"
ShapeOf(s) ==
    CASE LP_SLASH(s).ok -> "slash"
      [] LP_SPACE(s).ok -> "space"
      [] LP_TIGHT(s).ok -> "tight"
      [] HasSlash(s) -> "naive"
      [] OTHER -> "none"

normalize_lotplan(t) ==
    LET s == Strip(t)
        shape == ShapeOf(s)
    IN  CASE shape = "slash" -> FromMatch(LP_SLASH(s))
          [] shape = "space" -> FromMatch(LP_SPACE(s))
          [] shape = "tight" -> FromMatch(LP_TIGHT(s))
          [] shape = "naive" -> FromNaiveSlash(s)
          [] OTHER -> << >>

(***************************************************************************)
(* normalize_lotplan as an operation: SpecNorm applies it to every text of *)
(* at most MaxTextLen characters of TextAlphabet and to SampleTexts.       *)
(***************************************************************************)
MaxTextLen == 6
TextAlphabet == {"L", "r", "1", " ", "/"}
SampleTexts ==
    { <<"3", "R", "P", "6", "7", "2", "5", "4">>,
      <<"L", "o", "t", " ", "2", " ", "R", "P", "5", "3", "4", "3", "5">>,
      <<"L", "O", "T", "2", "R", "P", "1">>,
      <<"l", "2", "\t", "r", "p", "\t", "1">>,
      <<"1", "/", "R", "R", "R", "R", "R", "1">>,
      <<"?", "?", "?">> }
Texts == UNION {[1..n -> TextAlphabet] : n \in 0..MaxTextLen} \cup SampleTexts

\* a marker that no result of normalize_lotplan equals
Pending == << <<"pending">> >>

IdleNorm == text = << >> /\ normalized = Pending

InitNorm == text \in Texts /\ normalized = Pending

Normalize ==
    /\ normalized = Pending
    /\ normalized' = normalize_lotplan(text)
    /\ UNCHANGED text
    /\ UNCHANGED <<fetchVars, intersectVars, resolveVars, codecVars, queryVars>>

(***************************************************************************)
(* arcgis_query and fetch_all_features.  A response of the service is a    *)
(* record [http_ok, error, features, exceeded]: whether the HTTP status is *)
(* a success, whether the payload has an "error" key, the payload's        *)
(* "features" and its "exceededTransferLimit".  The service is arbitrary:  *)
(* every response is chosen when it is received.                           *)
(***************************************************************************)
Calls == {1, 2}
MaxRequests == 3
MaxPageLen == 2
FeatIds == {"a", "b"}
PageLists == UNION {[1..n -> FeatIds] : n \in 0..MaxPageLen}
Responses ==
    [http_ok : BOOLEAN, error : BOOLEAN, features : PageLists, exceeded : BOOLEAN]

NoResult == [status |-> "none", value |-> << >>]

\* (mutant) only the HTTP status is looked at
QueryRaises_StatusOnly(resp) == ~resp.http_ok

\* arcgis_query raises: r.raise_for_status(), or "error" in data
QueryRaises(resp) == ~resp.http_ok \/ resp.error

\* (mutant) only the flag decides
MorePages_FlagOnly(page) == page.exceeded

\* lines 38-42: the loop goes on after this page
MorePages(page) == page.exceeded /\ Len(page.features) # 0

\* (mutant) the offset counts pages
NextOffset_PerPage(offset, feats) == offset + 1

\* line 40: result_offset += len(feats)
NextOffset(offset, feats) == offset + Len(feats)

IdleFetch ==
    /\ f_pc = [c \in Calls |-> "idle"]
    /\ result_offset = [c \in Calls |-> 0]
    /\ features = [c \in Calls |-> << >>]
    /\ sent = [c \in Calls |-> << >>]
    /\ pages = [c \in Calls |-> << >>]
    /\ f_result = [c \in Calls |-> NoResult]

\* one call of fetch_all_features, after lines 32-33
InitFetch ==
    /\ f_pc = [c \in Calls |-> IF c = 1 THEN "loop" ELSE "idle"]
    /\ result_offset = [c \in Calls |-> 0]
    /\ features = [c \in Calls |-> << >>]
    /\ sent = [c \in Calls |-> << >>]
    /\ pages = [c \in Calls |-> << >>]
    /\ f_result = [c \in Calls |-> NoResult]

\* (mutant) the offset is one module-level counter, the one call 1 advances
RequestOffset_Shared(c) == result_offset[1]

\* line 35: "resultOffset": result_offset, the local of this call
RequestOffset(c) == result_offset[c]

\* line 35 up to the await: the request is posted with the current offset
PostPage(c) ==
    /\ f_pc[c] = "loop"
    /\ Len(sent[c]) < MaxRequests
    /\ sent' = [sent EXCEPT ![c] = Append(@, RequestOffset(c))]
    /\ f_pc' = [f_pc EXCEPT ![c] = "await"]
    /\ UNCHANGED <<result_offset, features, pages, f_result>>
    /\ UNCHANGED <<normVars, intersectVars, resolveVars, codecVars, queryVars>>

\* the response arrives and arcgis_query raises: the exception leaves
\* fetch_all_features, its local features are dropped
ReceiveError(c) ==
    /\ f_pc[c] = "await"
    /\ \E resp \in Responses :
        /\ QueryRaises(resp)
        /\ pages' = [pages EXCEPT ![c] = Append(@, resp)]
    /\ f_pc' = [f_pc EXCEPT ![c] = "raised"]
    /\ f_result' = [f_result EXCEPT ![c] = [status |-> "raised", value |-> << >>]]
    /\ UNCHANGED <<result_offset, features, sent>>
    /\ UNCHANGED <<normVars, intersectVars, resolveVars, codecVars, queryVars>>

\* the response arrives and is a page: lines 36-43
ReceivePage(c) ==
    /\ f_pc[c] = "await"
    /\ \E resp \in Responses :
        /\ ~QueryRaises(resp)
        /\ pages' = [pages EXCEPT ![c] = Append(@, resp)]
        /\ features' = [features EXCEPT ![c] = @ \o resp.features]
        /\ IF ~resp.exceeded
           THEN /\ f_pc' = [f_pc EXCEPT ![c] = "returned"]
                /\ f_result' = [f_result EXCEPT ![c] =
                                   [status |-> "returned", value |-> features'[c]]]
                /\ UNCHANGED result_offset
           ELSE /\ result_offset' =
                       [result_offset EXCEPT ![c] = NextOffset(@, resp.features)]
                /\ IF MorePages(resp)
                   THEN /\ f_pc' = [f_pc EXCEPT ![c] = "loop"]
                        /\ UNCHANGED f_result
                   ELSE /\ f_pc' = [f_pc EXCEPT ![c] = "returned"]
                        /\ f_result' = [f_result EXCEPT ![c] =
                                           [status |-> "returned", value |-> features'[c]]]
    /\ UNCHANGED sent
    /\ UNCHANGED <<normVars, intersectVars, resolveVars, codecVars, queryVars>>

\* two calls of fetch_all_features at once, each after lines 32-33
InitFetchBoth ==
    /\ f_pc = [c \in Calls |-> "loop"]
    /\ result_offset = [c \in Calls |-> 0]
    /\ features = [c \in Calls |-> << >>]
    /\ sent = [c \in Calls |-> << >>]
    /\ pages = [c \in Calls |-> << >>]
    /\ f_result = [c \in Calls |-> NoResult]

\* A service that answers every request with a page and has MatchingCount
\* matching features: the page sent for an offset holds no more features
\* than are left from that offset on, none once the offset has reached the
\* count; its exceededTransferLimit flag is whatever it likes.
MatchingCount == MaxRequests - 1
FiniteService(offset, resp) ==
    /\ ~QueryRaises(resp)
    /\ IF offset >= MatchingCount
       THEN resp.features = << >>
       ELSE Len(resp.features) <= MatchingCount - offset

\* ReceivePage with the response of such a service to the request last sent
ServePage(c) ==
    /\ ReceivePage(c)
    /\ FiniteService(sent[c][Len(sent[c])], pages'[c][Len(pages'[c])])

(***************************************************************************)
(* utils/geo.py and the Esri -> GeoJSON helper of main.py.  A point is a   *)
(* pair <<x, y>>, a ring a sequence of points, a GeoJSON geometry a record *)
(* [empty, type, coordinates] (empty: the dict has no key at all).         *)
(***************************************************************************)
\* float(x) of a JSON number
Float(x) == x

\* [[float(x), float(y)] for x, y in ring]
FloatRing(ring) == [k \in 1..Len(ring) |-> <<Float(ring[k][1]), Float(ring[k][2])>>]

\* (mutant) a ring of four points is taken to be too short
RingUsable_FivePoints(ring) == Len(ring) >= 5

\* "if not ring or len(ring) < 4: continue"
RingUsable(ring) == Len(ring) >= 4

\* the usable rings of a sequence of rings, converted
UsableRings(rings) ==
    LET kept == SelectSeq(rings, RingUsable)
    IN  [k \in 1..Len(kept) |-> FloatRing(kept[k])]

RECURSIVE FlattenRings(_)
\* the rings of every polygon of a MultiPolygon, in order
FlattenRings(polys) ==
    IF polys = << >> THEN << >>
    ELSE UsableRings(Head(polys)) \o FlattenRings(Tail(polys))

geojson_to_esri_polygon(g) ==
    [rings |-> CASE g.type = "Polygon" -> UsableRings(g.coordinates)
                 [] g.type = "MultiPolygon" -> FlattenRings(g.coordinates)
                 [] OTHER -> << >>,
     wkid |-> 4326]

RECURSIVE AllPoints(_)
\* every point of a sequence of rings
AllPoints(rings) ==
    IF rings = << >> THEN {}
    ELSE {Head(rings)[k] : k \in 1..Len(Head(rings))} \cup AllPoints(Tail(rings))

RECURSIVE AllPolyPoints(_)
AllPolyPoints(polys) ==
    IF polys = << >> THEN {}
    ELSE AllPoints(Head(polys)) \cup AllPolyPoints(Tail(polys))

\* _iter_coords
_iter_coords(g) ==
    CASE g.type = "Polygon" -> AllPoints(g.coordinates)
      [] g.type = "MultiPolygon" -> AllPolyPoints(g.coordinates)
      [] OTHER -> {}

SetMin(S) == CHOOSE v \in S : \A w \in S : v <= w
SetMax(S) == CHOOSE v \in S : \A w \in S : v >= w

\* _bbox_from_geojson and geojson_to_esri_envelope
geojson_to_esri_envelope(g) ==
    LET pts == _iter_coords(g)
        xs == {pt[1] : pt \in pts}
        ys == {pt[2] : pt \in pts}
    IN  IF pts = {}
        THEN [xmin |-> 0, ymin |-> 0, xmax |-> 0, ymax |-> 0, wkid |-> 4326]
        ELSE [xmin |-> SetMin(xs), ymin |-> SetMin(ys),
              xmax |-> SetMax(xs), ymax |-> SetMax(ys), wkid |-> 4326]

NoGeometry == [type |-> "None", coordinates |-> << >>]

\* "for x, y in ring" raises on a point that is not a pair; only the rings
\* that pass "len(ring) < 4: continue" reach it (main.py lines 114-117)
DecodeRaises(rings) ==
    \E k \in 1..Len(rings) :
        /\ RingUsable(rings[k])
        /\ \E m \in 1..Len(rings[k]) : Len(rings[k][m]) # 2

\* main.py esri_polygon_to_geojson: None without a usable ring, and None
\* when the conversion raises (the except clause of lines 120-121)
esri_polygon_to_geojson(geom_esri) ==
    IF DecodeRaises(geom_esri.rings) THEN NoGeometry
    ELSE LET coords == UsableRings(geom_esri.rings)
         IN  IF coords = << >> THEN NoGeometry
             ELSE [type |-> "Polygon", coordinates |-> coords]

Ring4 == << <<0, 0>>, <<2, 0>>, <<0, 2>>, <<0, 0>> >>
Ring3 == << <<0, 0>>, <<1, 1>>, <<0, 0>> >>
\* a ring one of whose points has three ordinates
Ring4Z == << <<0, 0>>, <<2, 0, 5>>, <<0, 2>>, <<0, 0>> >>

(***************************************************************************)
(* main.py intersect.  layers.yaml is taken as loaded and well formed:     *)
(* LayerCfg is layer_map.  Every await of fetch_all_features is one step;  *)
(* what the call does is chosen from FetchOutcomes (it raises, or returns  *)
(* a feature list).                                                        *)
(***************************************************************************)
MaxLayers == 2
ConfiguredIds == {"A", "B"}
RequestIds == ConfiguredIds \cup {"X"}
\* layer["fields"]["include"]: A names fields, B has none
Include(lid) == IF lid = "A" THEN <<"f1", "f2">> ELSE << >>

Parcels ==
    { [empty |-> TRUE, type |-> "None", coordinates |-> << >>],
      [empty |-> FALSE, type |-> "Polygon", coordinates |-> <<Ring4, Ring3>>],
      [empty |-> FALSE, type |-> "Polygon", coordinates |-> << >>] }

IntersectRequests ==
    [layer_ids : UNION {[1..n -> RequestIds] : n \in 0..MaxLayers}, parcel : Parcels]

\* features as the service returns them
GoodFeature == [attributes |-> "attrs1", geometry |-> [rings |-> <<Ring4>>]]
BadFeature == [attributes |-> "attrs2", geometry |-> [rings |-> <<Ring3>>]]
\* "geometry": null, or a geometry without rings
NoRingsFeature == [attributes |-> "attrs3", geometry |-> [rings |-> << >>]]
\* a ring long enough with a malformed point
MalformedFeature == [attributes |-> "attrs4", geometry |-> [rings |-> <<Ring4, Ring4Z>>]]
\* a short ring beside a usable one
MixedFeature == [attributes |-> "attrs5", geometry |-> [rings |-> <<Ring3, Ring4>>]]
IFeatureLists ==
    { << >>, <<BadFeature, GoodFeature>>,
      <<MalformedFeature, MixedFeature, NoRingsFeature, GoodFeature>> }
\* what the exception of a failed fetch_all_features says
IErrors == {"timeout", "invalid field"}
FetchOutcomes ==
    {[raised |-> TRUE, value |-> << >>, error |-> e] : e \in IErrors}
    \cup {[raised |-> FALSE, value |-> fs, error |-> ""] : fs \in IFeatureLists}

\* (mutant) only the first requested id is validated
Missing_FirstOnly(layer_ids) ==
    IF layer_ids # << >> /\ Head(layer_ids) \notin ConfiguredIds
    THEN <<Head(layer_ids)>>
    ELSE << >>

\* line 142: missing = [lid for lid in body.layer_ids if lid not in layer_map]
Missing(layer_ids) == SelectSeq(layer_ids, LAMBDA lid : lid \notin ConfiguredIds)

\* lines 160-161, 186: ",".join(include_fields) if include_fields else "*"
OutFieldsConf(lid) == IF Include(lid) # << >> THEN Include(lid) ELSE <<"*">>

\* the parameters of attempt k for layer lid (lines 190-198, 204-212, 218-226)
AttemptQuery(k, lid, parcel) ==
    CASE k = 1 -> [layer |-> lid, tag |-> "poly/conf", outFields |-> OutFieldsConf(lid),
                   geometryType |-> "esriGeometryPolygon",
                   geometry |-> geojson_to_esri_polygon(parcel)]
      [] k = 2 -> [layer |-> lid, tag |-> "poly/*", outFields |-> <<"*">>,
                   geometryType |-> "esriGeometryPolygon",
                   geometry |-> geojson_to_esri_polygon(parcel)]
      [] OTHER -> [layer |-> lid, tag |-> "env/*", outFields |-> <<"*">>,
                   geometryType |-> "esriGeometryEnvelope",
                   geometry |-> geojson_to_esri_envelope(parcel)]

\* (mutant) the envelope attempt is left out
LastAttempt_NoEnvelope(k) == k = 2

\* (mutant) an empty result is retried like a failure
FallsThrough_OnEmpty(outcome) == outcome.raised \/ outcome.value = << >>

\* the except clauses of lines 200, 214, 228: the next attempt is made
\* exactly when this one raised
FallsThrough(outcome) == outcome.raised

\* the three nested try blocks: after the envelope attempt nothing is left
LastAttempt(k) == k = 3

RECURSIVE OutFeats_StopAtUndecodable(_)
\* (mutant) the loop is left at the first feature that does not decode
OutFeats_StopAtUndecodable(feats) ==
    IF feats = << >> THEN << >>
    ELSE LET gj == esri_polygon_to_geojson(Head(feats).geometry)
         IN  IF gj = NoGeometry THEN << >>
             ELSE <<[geometry |-> gj, attrs |-> Head(feats).attributes]>>
                  \o OutFeats_StopAtUndecodable(Tail(feats))

\* lines 239-250: the features whose geometry decodes, in service order
RECURSIVE OutFeats(_)
OutFeats(feats) ==
    IF feats = << >> THEN << >>
    ELSE LET gj == esri_polygon_to_geojson(Head(feats).geometry)
         IN  (IF gj = NoGeometry THEN << >>
              ELSE <<[geometry |-> gj, attrs |-> Head(feats).attributes]>>)
             \o OutFeats(Tail(feats))

\* lines 252-259
LayerResult(lid, feats) == [id |-> lid, features |-> OutFeats(feats)]

\* (mutant) results are kept by layer id: a repeated id replaces its entry
AppendResult_ById(results, r) ==
    IF \E k \in 1..Len(results) : results[k].id = r.id
    THEN [k \in 1..Len(results) |-> IF results[k].id = r.id THEN r ELSE results[k]]
    ELSE Append(results, r)

\* line 252: results.append(...)
AppendResult(results, r) == Append(results, r)

\* lines 201, 215, 229: query_errors.append(f"<tag>: {e}")
AttemptError(q, outcome) == [tag |-> q.tag, error |-> outcome.error]

Response(status, kind, layers, ids, layer, errors) ==
    [status |-> status, kind |-> kind, layers |-> layers, ids |-> ids,
     layer |-> layer, errors |-> errors]
NoResponse == Response(0, "none", << >>, << >>, "", << >>)

IdleIntersect ==
    /\ i_pc = "idle"
    /\ i_req = [layer_ids |-> << >>, parcel |-> [empty |-> TRUE, type |-> "None", coordinates |-> << >>]]
    /\ i_idx = 0
    /\ i_attempt = 0
    /\ i_errors = << >>
    /\ i_results = << >>
    /\ i_queries = << >>
    /\ i_response = NoResponse

InitIntersect ==
    /\ i_pc = "start"
    /\ i_req \in IntersectRequests
    /\ i_idx = 0
    /\ i_attempt = 0
    /\ i_errors = << >>
    /\ i_results = << >>
    /\ i_queries = << >>
    /\ i_response = NoResponse

\* lines 138-155: validation, then the loop is entered (or, with no layer id,
\* line 261 returns at once)
IntersectValidate ==
    /\ i_pc = "start"
    /\ IF Missing(i_req.layer_ids) # << >>
       THEN /\ i_response' = Response(400, "unknown_layers", << >>,
                                      Missing(i_req.layer_ids), "", << >>)
            /\ i_pc' = "done"
            /\ UNCHANGED <<i_idx, i_attempt>>
       ELSE IF i_req.parcel.empty
       THEN /\ i_response' = Response(400, "parcel_required", << >>, << >>, "", << >>)
            /\ i_pc' = "done"
            /\ UNCHANGED <<i_idx, i_attempt>>
       ELSE IF i_req.layer_ids = << >>
       THEN /\ i_response' = Response(200, "layers", << >>, << >>, "", << >>)
            /\ i_pc' = "done"
            /\ UNCHANGED <<i_idx, i_attempt>>
       ELSE /\ i_pc' = "query"
            /\ i_idx' = 1
            /\ i_attempt' = 1
            /\ UNCHANGED i_response
    /\ UNCHANGED <<i_req, i_errors, i_results, i_queries>>
    /\ UNCHANGED <<normVars, fetchVars, resolveVars, codecVars, queryVars>>

\* lines 157-259 for one await: attempt i_attempt for layer i_idx is made.
\* If it raises, its error is recorded and the next attempt follows, or after
\* the third the HTTPException(502) leaves the handler (lines 230-236, 263).
\* If it returns, the layer's result is appended and the loop goes to the
\* next layer id, or line 261 returns.
IntersectAttempt ==
    /\ i_pc = "query"
    /\ LET lid == i_req.layer_ids[i_idx]
           q == AttemptQuery(i_attempt, lid, i_req.parcel)
       IN  \E outcome \in FetchOutcomes :
            /\ i_queries' = Append(i_queries,
                  [idx |-> i_idx, attempt |-> i_attempt, query |-> q, outcome |-> outcome])
            /\ IF FallsThrough(outcome)
               THEN /\ i_errors' = Append(i_errors, AttemptError(q, outcome))
                    /\ IF LastAttempt(i_attempt)
                       THEN /\ i_response' = Response(502, "upstream", << >>, << >>,
                                                      lid, i_errors')
                            /\ i_pc' = "done"
                            /\ UNCHANGED <<i_idx, i_attempt, i_results>>
                       ELSE /\ i_attempt' = i_attempt + 1
                            /\ UNCHANGED <<i_pc, i_idx, i_results, i_response>>
               ELSE /\ i_results' = AppendResult(i_results, LayerResult(lid, outcome.value))
                    /\ i_errors' = << >>
                    /\ i_attempt' = 1
                    /\ IF i_idx = Len(i_req.layer_ids)
                       THEN /\ i_response' = Response(200, "layers", i_results',
                                                      << >>, "", << >>)
                            /\ i_pc' = "done"
                            /\ UNCHANGED i_idx
                       ELSE /\ i_idx' = i_idx + 1
                            /\ UNCHANGED <<i_pc, i_response>>
    /\ UNCHANGED i_req
    /\ UNCHANGED <<normVars, fetchVars, resolveVars, codecVars, queryVars>>

(***************************************************************************)
(* parcel_resolver.py: _esri_polygon_to_polygons and resolve_parcels, and  *)
(* main.py parcel_resolve.  shapely is outside the repository: a polygon   *)
(* is the record [outer, holes]; whether shapely keeps it (valid after     *)
(* buffer(0), not empty) is ShapelyKeeps; what unary_union and             *)
(* MultiPolygon(...) do is chosen when they are called.                    *)
(***************************************************************************)
MaxIds == 2

\* Polygon(curr_outer, holes) is valid and not empty, at once or after
\* buffer(0): taken to be so when the outer ring has three distinct points
ShapelyKeeps(outer) == Cardinality({outer[k] : k \in 1..Len(outer)}) >= 3

\* a ring that passes twice through a point other than its closing point is
\* invalid, and buffer(0) splits it: the repaired geometry is a MultiPolygon
RepairedType(outer) ==
    IF Len(outer) >= 2
       /\ Cardinality({outer[k] : k \in 1..(Len(outer) - 1)}) < Len(outer) - 1
    THEN "MultiPolygon"
    ELSE "Polygon"

\* on which side of the line from a to b the point pt lies
Cross(a, b, pt) == (b[1] - a[1]) * (pt[2] - a[2]) - (b[2] - a[2]) * (pt[1] - a[1])

\* pt lies strictly inside the convex ring (for a ring that is not convex the
\* answer is no)
StrictlyInside(pt, ring) ==
    \/ \A k \in 1..(Len(ring) - 1) : Cross(ring[k], ring[k + 1], pt) > 0
    \/ \A k \in 1..(Len(ring) - 1) : Cross(ring[k], ring[k + 1], pt) < 0

\* the bounding boxes of two rings are apart
BoxesApart(r1, r2) ==
    LET xs1 == {r1[k][1] : k \in 1..Len(r1)}
        ys1 == {r1[k][2] : k \in 1..Len(r1)}
        xs2 == {r2[k][1] : k \in 1..Len(r2)}
        ys2 == {r2[k][2] : k \in 1..Len(r2)}
    IN  \/ \A x1 \in xs1, x2 \in xs2 : x1 < x2
        \/ \A x1 \in xs1, x2 \in xs2 : x2 < x1
        \/ \A y1 \in ys1, y2 \in ys2 : y1 < y2
        \/ \A y1 \in ys1, y2 \in ys2 : y2 < y1

\* a ring shapely finds in order: closed, not degenerate, not touching itself
SimpleRing(ring) ==
    /\ ring[1] = ring[Len(ring)]
    /\ ShapelyKeeps(ring)
    /\ RepairedType(ring) = "Polygon"

\* line 95, p.is_valid of the polygon as built: taken to be so when every
\* ring is in order, every hole lies inside the outer ring and the holes are
\* apart from each other (a sufficient condition)
BuiltValid(outer, holes) ==
    /\ SimpleRing(outer)
    /\ \A h \in 1..Len(holes) :
          /\ SimpleRing(holes[h])
          /\ \A k \in 1..Len(holes[h]) : StrictlyInside(holes[h][k], outer)
          /\ \A g \in 1..Len(holes) : g # h => BoxesApart(holes[g], holes[h])

\* lines 72-119: the first usable ring is the outer ring, the others its holes;
\* at most one geometry comes back.  outer and holes are the rings handed to
\* Polygon(...); repaired says that buffer(0) replaced the geometry built
\* from them (line 96), whose rings are then those shapely made.
_esri_polygon_to_polygons(geom_esri) ==
    LET usable == SelectSeq(geom_esri.rings, RingUsable)
    IN  IF usable = << >> THEN << >>
        ELSE IF ShapelyKeeps(Head(usable))
        THEN <<[outer |-> Head(usable), holes |-> Tail(usable),
                geom_type |-> RepairedType(Head(usable)),
                repaired |-> ~BuiltValid(Head(usable), Tail(usable))]>>
        ELSE << >>

RingBig == << <<0, 0>>, <<20, 0>>, <<0, 20>>, <<0, 0>> >>

RingB == << <<5, 5>>, <<7, 5>>, <<5, 7>>, <<5, 5>> >>
RingFlat == << <<0, 0>>, <<1, 1>>, <<1, 1>>, <<0, 0>> >>
RingEight == << <<0, 0>>, <<1, 1>>, <<2, 0>>, <<2, 2>>, <<1, 1>>, <<0, 2>>, <<0, 0>> >>

\* cadastre features: attributes may lack the lot and plan fields
\* attributes: has holds the keys the service sent
\* an attribute value of the service's JSON: a string, or null
JsonText(t) == [null |-> FALSE, text |-> t]
JsonNull == [null |-> TRUE, text |-> << >>]
NoAttributes == [has |-> {}, lot |-> JsonText(<< >>), plan |-> JsonText(<< >>)]
CFeatureA ==
    [attributes |-> [has |-> {"lot", "plan"}, lot |-> JsonText(<<"1">>),
                     plan |-> JsonText(<<"R", "P", "1">>)],
     geometry |-> [rings |-> <<Ring4>>]]
\* the lot field is sent, with the value null
CFeatureNull ==
    [attributes |-> [has |-> {"lot", "plan"}, lot |-> JsonNull,
                     plan |-> JsonText(<<"R", "P", "1">>)],
     geometry |-> [rings |-> <<Ring4>>]]
CFeatureB == [attributes |-> NoAttributes, geometry |-> [rings |-> <<Ring3, RingB, Ring4>>]]
CFeatureFlat == [attributes |-> NoAttributes, geometry |-> [rings |-> <<RingFlat>>]]
CFeatureEight == [attributes |-> NoAttributes, geometry |-> [rings |-> <<RingEight>>]]
CFeatureLists ==
    { << >>, <<CFeatureA>>, <<CFeatureFlat>>, <<CFeatureEight>>,
      <<CFeatureFlat, CFeatureB, CFeatureNull>> }
CFetchOutcomes ==
    {[raised |-> TRUE, value |-> << >>]}
    \cup {[raised |-> FALSE, value |-> fs] : fs \in CFeatureLists}

Identifiers ==
    { <<"1", "/", "R", "P", "1">>, <<" ", "l", "2", "/", "r", " ", "3">>, <<"?", "?">> }
RequestTexts ==
    { <<"?", "?", "?">>, << >>, <<"1", "2">>, <<"L", "O", "T">>,
      <<"3", "R", "P", "6", "7", "2", "5", "4">>,
      <<"L", "o", "t", " ", "2", " ", "R", "P", "5", "3", "4", "3", "5">>,
      <<"L", "/", "r", "1", " ", "1">> }
ResolveRequests ==
    {[entry |-> "endpoint", text |-> t, lotplans |-> << >>] : t \in RequestTexts}
    \cup {[entry |-> "direct", text |-> << >>, lotplans |-> ids] :
             ids \in UNION {[1..n -> Identifiers] : n \in 0..MaxIds}}

\* (mutant) the check of the normalized list is left out
Unparseable_Unchecked(lps) == FALSE

\* main.py line 95: "if not normalized"
Unparseable(lps) == lps = << >>

\* (mutant) the endpoint is only missed when there is something to query
NotConfigured_WhenQuerying(settings, lotplans) ==
    ~settings.CADASTRE_URL /\ lotplans # << >>

\* lines 131-132: "if not settings.CADASTRE_URL", before lotplans is looked at
NotConfigured(settings, lotplans) == ~settings.CADASTRE_URL

\* lines 145-147
LotU(lp) == Strip(Upper(SubSeq(lp, 1, FirstSlash(lp) - 1)))
PlanU(lp) == RemoveSpaces(Upper(SubSeq(lp, FirstSlash(lp) + 1, Len(lp))))

\* (mutant) tier A is queried whatever the configuration
FirstTier_AlwaysCombined(lotplan_field) == 1

\* line 153: tier A is queried only with a combined field configured
FirstTier(lotplan_field) == IF lotplan_field THEN 1 ELSE 2

\* (mutant) any answer of a tier ends the cascade, an empty one too
HasFeats_AnyAnswer(feats) == TRUE

\* "if not feats" (line 169) and "if feats: break" (line 186)
HasFeats(feats) == feats # << >>

\* the where clause of each tier (lines 154, 171, 172)
Where(tier, lp) ==
    [using |-> CASE tier = 1 -> "lotplan"
                 [] tier = 2 -> "lot+plan, plan without spaces"
                 [] OTHER -> "lot+plan",
     lotplan |-> LotPlan(LotU(lp), PlanU(lp))]

\* str(v) of an attribute value: a string is itself, None is "None"
str(v) == IF v.null THEN <<"N", "o", "n", "e">> ELSE v.text

\* lines 196-202: the provenance record of one polygon;
\* str(attrs.get(lot_field, lot_u)) takes the default only without the key
MatchedRecord(attrs, lp) ==
    [lot |-> str(IF "lot" \in attrs.has THEN attrs.lot ELSE JsonText(LotU(lp))),
     plan |-> str(IF "plan" \in attrs.has THEN attrs.plan ELSE JsonText(PlanU(lp))),
     lotplan |-> LotPlan(LotU(lp), PlanU(lp))]

RECURSIVE CollectGeoms(_)
\* lines 192-195: the polygons of feats, in feature order
CollectGeoms(feats) ==
    IF feats = << >> THEN << >>
    ELSE _esri_polygon_to_polygons(Head(feats).geometry) \o CollectGeoms(Tail(feats))

RECURSIVE CollectMatched(_, _)
\* lines 192-202: one record per polygon appended
CollectMatched(feats, lp) ==
    IF feats = << >> THEN << >>
    ELSE LET polys == _esri_polygon_to_polygons(Head(feats).geometry)
         IN  [k \in 1..Len(polys) |-> MatchedRecord(Head(feats).attributes, lp)]
             \o CollectMatched(Tail(feats), lp)

\* (mutant) only the polygons of the identifier at hand are kept
AppendGeoms_LastOnly(geoms, polys) == polys

\* line 194: geoms.append(poly), for each polygon of the identifier
AppendGeoms(geoms, polys) == geoms \o polys

NoParcel == [type |-> "None", source |-> "none", polys |-> << >>]

\* lines 208-225: u is what unary_union did ("Polygon", "MultiPolygon",
\* another geom_type, or "raise"), a what MultiPolygon(...) did ("ok", "raise")
UnionCascade(geoms, u, a) ==
    CASE u \in {"Polygon", "MultiPolygon"} ->
            [type |-> u, source |-> "union", polys |-> geoms]
      [] a = "ok" ->
            [type |-> "MultiPolygon", source |-> "assembled",
             polys |-> SelectSeq(geoms, LAMBDA g : g.geom_type = "Polygon")]
      [] OTHER ->
            [type |-> geoms[1].geom_type, source |-> "first", polys |-> <<geoms[1]>>]

\* (mutant) a single polygon counts as none
ResolveResult_NeedsTwo(geoms, matched, u, a) ==
    IF Len(geoms) <= 1
    THEN [parcel |-> NoParcel, matched |-> << >>]
    ELSE [parcel |-> UnionCascade(geoms, u, a), matched |-> matched]

\* lines 204-225: what resolve_parcels returns
ResolveResult(geoms, matched, u, a) ==
    IF geoms = << >>
    THEN [parcel |-> NoParcel, matched |-> << >>]
    ELSE [parcel |-> UnionCascade(geoms, u, a), matched |-> matched]

UnionOutcomes == {"Polygon", "MultiPolygon", "GeometryCollection", "raise"}
AssembleOutcomes == {"ok", "raise"}

RResponse(status, kind, result) ==
    [status |-> status, kind |-> kind, parcel |-> result.parcel, matched |-> result.matched]
NoResult2 == [parcel |-> NoParcel, matched |-> << >>]

IdleResolve ==
    /\ r_settings = [CADASTRE_URL |-> FALSE, CADASTRE_LOTPLAN_FIELD |-> FALSE]
    /\ r_pc = "idle"
    /\ r_req = [entry |-> "direct", text |-> << >>, lotplans |-> << >>]
    /\ r_lotplans = << >>
    /\ r_idx = 0
    /\ r_tier = 0
    /\ r_feats = << >>
    /\ r_log = << >>
    /\ r_geoms = << >>
    /\ r_matched = << >>
    /\ r_queries = << >>
    /\ r_used = << >>
    /\ r_anyok = FALSE
    /\ r_union = [union |-> "n/a", assemble |-> "n/a"]
    /\ r_response = RResponse(0, "none", NoResult2)

InitResolve ==
    /\ r_settings \in [CADASTRE_URL : BOOLEAN, CADASTRE_LOTPLAN_FIELD : BOOLEAN]
    /\ r_pc = "start"
    /\ r_req \in ResolveRequests
    /\ r_lotplans = << >>
    /\ r_idx = 0
    /\ r_tier = 0
    /\ r_feats = << >>
    /\ r_log = << >>
    /\ r_geoms = << >>
    /\ r_matched = << >>
    /\ r_queries = << >>
    /\ r_used = << >>
    /\ r_anyok = FALSE
    /\ r_union = [union |-> "n/a", assemble |-> "n/a"]
    /\ r_response = RResponse(0, "none", NoResult2)

\* main.py lines 93-96 and 100-102, parcel_resolver.py lines 131-139: the text
\* is normalized and rejected if nothing comes of it; resolve_parcels raises
\* without a cadastre endpoint, which /parcel/resolve turns into a 500
ResolveStart ==
    /\ r_pc = "start"
    /\ LET lps == IF r_req.entry = "endpoint"
                  THEN normalize_lotplan(r_req.text)
                  ELSE r_req.lotplans
       IN  IF r_req.entry = "endpoint" /\ Unparseable(lps)
           THEN /\ r_response' = RResponse(400, "input_error", NoResult2)
                /\ r_pc' = "done"
                /\ UNCHANGED <<r_lotplans, r_idx>>
           ELSE IF NotConfigured(r_settings, lps)
           THEN /\ r_response' =
                       IF r_req.entry = "endpoint"
                       THEN RResponse(500, "server_error", NoResult2)
                       ELSE RResponse(0, "raised", NoResult2)
                /\ r_pc' = "done"
                /\ UNCHANGED <<r_lotplans, r_idx>>
           ELSE /\ r_lotplans' = lps
                /\ r_idx' = 1
                /\ r_pc' = "ident"
                /\ UNCHANGED r_response
    /\ UNCHANGED <<r_settings, r_req, r_tier, r_feats, r_log, r_geoms, r_matched,
                   r_queries, r_used, r_anyok, r_union>>
    /\ UNCHANGED <<normVars, fetchVars, intersectVars, codecVars, queryVars>>

\* lines 141-152: the next identifier; one without a slash is passed over
ResolveNextId ==
    /\ r_pc = "ident"
    /\ IF r_idx > Len(r_lotplans)
       THEN /\ r_pc' = "union"
            /\ UNCHANGED <<r_idx, r_tier, r_feats, r_log>>
       ELSE IF ~HasSlash(r_lotplans[r_idx])
       THEN /\ r_idx' = r_idx + 1
            /\ UNCHANGED <<r_pc, r_tier, r_feats, r_log>>
       ELSE /\ r_feats' = << >>
            /\ r_log' = << >>
            /\ r_tier' = FirstTier(r_settings.CADASTRE_LOTPLAN_FIELD)
            /\ r_pc' = "tier"
            /\ UNCHANGED r_idx
    /\ UNCHANGED <<r_settings, r_req, r_lotplans, r_geoms, r_matched, r_queries,
                   r_used, r_anyok, r_union, r_response>>
    /\ UNCHANGED <<normVars, fetchVars, intersectVars, codecVars, queryVars>>

\* lines 153-188 for one await: tier r_tier is queried.  An exception leaves
\* feats as it was (empty); the next tier follows while feats is empty.
ResolveTier ==
    /\ r_pc = "tier"
    /\ \E outcome \in CFetchOutcomes :
        /\ r_queries' = Append(r_queries,
              [idx |-> r_idx, tier |-> r_tier, where |-> Where(r_tier, r_lotplans[r_idx])])
        /\ r_log' = Append(r_log, [tier |-> r_tier, outcome |-> outcome])
        /\ r_anyok' = (r_anyok \/ ~outcome.raised)
        /\ r_feats' = IF outcome.raised THEN r_feats ELSE outcome.value
        /\ IF HasFeats(r_feats') \/ r_tier = 3
           THEN /\ r_pc' = "collect"
                /\ UNCHANGED r_tier
           ELSE /\ r_tier' = r_tier + 1
                /\ UNCHANGED r_pc
    /\ UNCHANGED <<r_settings, r_req, r_lotplans, r_idx, r_geoms, r_matched,
                   r_used, r_union, r_response>>
    /\ UNCHANGED <<normVars, fetchVars, intersectVars, codecVars, queryVars>>

\* lines 190-202: the polygons of feats and their provenance are collected
ResolveCollect ==
    /\ r_pc = "collect"
    /\ r_geoms' = AppendGeoms(r_geoms, CollectGeoms(r_feats))
    /\ r_matched' = r_matched \o CollectMatched(r_feats, r_lotplans[r_idx])
    /\ r_used' = Append(r_used, [idx |-> r_idx, feats |-> r_feats])
    /\ r_idx' = r_idx + 1
    /\ r_pc' = "ident"
    /\ UNCHANGED <<r_settings, r_req, r_lotplans, r_tier, r_feats, r_log,
                   r_queries, r_anyok, r_union, r_response>>
    /\ UNCHANGED <<normVars, fetchVars, intersectVars, codecVars, queryVars>>

\* lines 204-225, and main.py line 99: the result is returned
ResolveUnion ==
    /\ r_pc = "union"
    /\ \E u \in UnionOutcomes \cup {"n/a"}, a \in AssembleOutcomes \cup {"n/a"} :
        /\ (u = "n/a") = (r_geoms = << >>)
        /\ (a = "n/a") = (u \in {"n/a", "Polygon", "MultiPolygon"})
        /\ r_union' = [union |-> u, assemble |-> a]
        /\ r_response' =
              IF r_req.entry = "endpoint"
              THEN RResponse(200, "ok", ResolveResult(r_geoms, r_matched, u, a))
              ELSE RResponse(0, "returned", ResolveResult(r_geoms, r_matched, u, a))
    /\ r_pc' = "done"
    /\ UNCHANGED <<r_settings, r_req, r_lotplans, r_idx, r_tier, r_feats, r_log,
                   r_geoms, r_matched, r_queries, r_used, r_anyok>>
    /\ UNCHANGED <<normVars, fetchVars, intersectVars, codecVars, queryVars>>

(***************************************************************************)
(* A polygon through the conversions: geo.py geojson_to_esri_polygon       *)
(* encodes it for the service, and either decoder takes the rings back:    *)
(* main.py esri_polygon_to_geojson or parcel_resolver.py                   *)
(* _esri_polygon_to_polygons.                                              *)
(***************************************************************************)
MaxRings == 2

RingOpen == << <<0, 0>>, <<2, 0>>, <<0, 2>>, <<1, 1>> >>
CodecRings == {Ring4, RingB, RingBig, Ring3, RingFlat, RingEight, RingOpen}
CodecPolygons ==
    {[empty |-> FALSE, type |-> "Polygon", coordinates |-> rs] :
        rs \in UNION {[1..n -> CodecRings] : n \in 0..MaxRings}}

NoEsri == [rings |-> << >>, wkid |-> 0]

IdleCodec ==
    /\ c_pc = "idle"
    /\ c_poly = [empty |-> TRUE, type |-> "None", coordinates |-> << >>]
    /\ c_esri = NoEsri
    /\ c_decoder = "none"
    /\ c_geojson = NoGeometry
    /\ c_polys = << >>

InitCodec ==
    /\ c_pc = "start"
    /\ c_poly \in CodecPolygons
    /\ c_esri = NoEsri
    /\ c_decoder = "none"
    /\ c_geojson = NoGeometry
    /\ c_polys = << >>

\* geo.py lines 35-57
CodecEncode ==
    /\ c_pc = "start"
    /\ c_esri' = geojson_to_esri_polygon(c_poly)
    /\ c_pc' = "encoded"
    /\ UNCHANGED <<c_poly, c_decoder, c_geojson, c_polys>>
    /\ UNCHANGED <<normVars, fetchVars, intersectVars, resolveVars, queryVars>>

\* main.py lines 107-121
CodecDecodeGeojson ==
    /\ c_pc = "encoded"
    /\ c_geojson' = esri_polygon_to_geojson(c_esri)
    /\ c_decoder' = "esri_polygon_to_geojson"
    /\ c_pc' = "decoded"
    /\ UNCHANGED <<c_poly, c_esri, c_polys>>
    /\ UNCHANGED <<normVars, fetchVars, intersectVars, resolveVars, queryVars>>

\* parcel_resolver.py lines 72-119
CodecDecodePolygons ==
    /\ c_pc = "encoded"
    /\ c_polys' = _esri_polygon_to_polygons(c_esri)
    /\ c_decoder' = "_esri_polygon_to_polygons"
    /\ c_pc' = "decoded"
    /\ UNCHANGED <<c_poly, c_esri, c_geojson>>
    /\ UNCHANGED <<normVars, fetchVars, intersectVars, resolveVars, queryVars>>

(***************************************************************************)
(* arcgis_client.py _prep_params and arcgis_query: one call.  A parameter  *)
(* map is a function from its keys to values [kind, v]; a url is a         *)
(* sequence of path segments and "/".                                      *)
(***************************************************************************)
StrV(v) == [kind |-> "str", v |-> v]
IntV(v) == [kind |-> "int", v |-> v]
DictV(v) == [kind |-> "dict", v |-> v]

\* {**a, **b}: the keys of b win
Merge(a, b) ==
    [k \in DOMAIN a \cup DOMAIN b |-> IF k \in DOMAIN b THEN b[k] ELSE a[k]]

\* q.setdefault(key, value)
SetDefault(q, key, value) ==
    IF key \in DOMAIN q THEN q ELSE Merge(q, [k \in {key} |-> value])

\* line 5
BASE_PARAMS == [k \in {"f"} |-> StrV("json")]

\* json.dumps of a dict or list
JsonDumps(value) == StrV(value.v)

\* lines 7-18
_prep_params(params) ==
    LET q == Merge(Merge(BASE_PARAMS, [k \in {"where"} |-> StrV("1=1")]), params)
        q2 == IF "geometry" \in DOMAIN q /\ q["geometry"].kind = "dict"
              THEN SetDefault(
                       [q EXCEPT !["geometry"] = JsonDumps(q["geometry"])],
                       "inSR", IntV("4326"))
              ELSE q
    IN  SetDefault(q2, "resultRecordCount", IntV("2000"))

\* url.rstrip('/')
RECURSIVE RStripSlash(_)
RStripSlash(url) ==
    IF url # << >> /\ url[Len(url)] = "/"
    THEN RStripSlash(SubSeq(url, 1, Len(url) - 1))
    ELSE url

\* line 24: url.rstrip('/') + '/query'
QueryUrl(url) == RStripSlash(url) \o <<"/", "query">>

\* what callers pass: any of these keys, each with one of these values
ParamValues ==
    [f |-> {StrV("html")},
     where |-> {StrV("LOT='1'")},
     geometry |-> {DictV("rings"), StrV("rings")},
     resultOffset |-> {IntV("0")}]
ParamKeys == {"f", "where", "geometry", "resultOffset"}
ParamMaps ==
    UNION {{m \in [ks -> UNION {ParamValues[k] : k \in ks}] :
                \A k \in ks : m[k] \in ParamValues[k]} : ks \in SUBSET ParamKeys}
Urls == { <<"host", "/", "layer">>, <<"host", "/", "layer", "/">> }

NoRequest == [method |-> "none", url |-> << >>, data |-> << >>]

IdleQuery ==
    /\ q_pc = "idle"
    /\ q_url = << >>
    /\ q_params = << >>
    /\ q_sent = NoRequest

InitQuery ==
    /\ q_pc = "start"
    /\ q_url \in Urls
    /\ q_params \in ParamMaps
    /\ q_sent = NoRequest

\* lines 21-24 up to the await
QueryPost ==
    /\ q_pc = "start"
    /\ q_sent' = [method |-> "POST", url |-> QueryUrl(q_url),
                  data |-> _prep_params(q_params)]
    /\ q_pc' = "await"
    /\ UNCHANGED <<q_url, q_params>>
    /\ UNCHANGED <<normVars, fetchVars, intersectVars, resolveVars, codecVars>>

\* lines 25-28: the response makes arcgis_query raise
QueryRaise ==
    /\ q_pc = "await"
    /\ \E resp \in Responses : QueryRaises(resp)
    /\ q_pc' = "raised"
    /\ UNCHANGED <<q_url, q_params, q_sent>>
    /\ UNCHANGED <<normVars, fetchVars, intersectVars, resolveVars, codecVars>>

\* line 29: the response is returned
QueryReturn ==
    /\ q_pc = "await"
    /\ \E resp \in Responses : ~QueryRaises(resp)
    /\ q_pc' = "returned"
    /\ UNCHANGED <<q_url, q_params, q_sent>>
    /\ UNCHANGED <<normVars, fetchVars, intersectVars, resolveVars, codecVars>>

(***************************************************************************)
(* The specifications: one per part of the program, the other parts idle.  *)
(***************************************************************************)
InitSpecNorm == InitNorm /\ IdleFetch /\ IdleIntersect /\ IdleResolve /\ IdleCodec /\ IdleQuery
NextNorm == Normalize
SpecNorm == InitSpecNorm /\ [][NextNorm]_vars

InitSpecFetch == IdleNorm /\ InitFetch /\ IdleIntersect /\ IdleResolve /\ IdleCodec /\ IdleQuery
NextFetch == \E c \in Calls : PostPage(c) \/ ReceiveError(c) \/ ReceivePage(c)
SpecFetch == InitSpecFetch /\ [][NextFetch]_vars

\* fetch_all_features against a service that answers: every request is
\* answered and the loop takes its next step
InitSpecFetchLive ==
    IdleNorm /\ InitFetchBoth /\ IdleIntersect /\ IdleResolve /\ IdleCodec /\ IdleQuery
NextFetchLive == \E c \in Calls : PostPage(c) \/ ServePage(c)
SpecFetchLive ==
    /\ InitSpecFetchLive
    /\ [][NextFetchLive]_vars
    /\ \A c \in Calls : WF_vars(PostPage(c) \/ ServePage(c))

InitSpecIntersect == IdleNorm /\ IdleFetch /\ InitIntersect /\ IdleResolve /\ IdleCodec /\ IdleQuery
NextIntersect == IntersectValidate \/ IntersectAttempt
SpecIntersect == InitSpecIntersect /\ [][NextIntersect]_vars

InitSpecResolve == IdleNorm /\ IdleFetch /\ IdleIntersect /\ InitResolve /\ IdleCodec /\ IdleQuery
NextResolve ==
    ResolveStart \/ ResolveNextId \/ ResolveTier \/ ResolveCollect \/ ResolveUnion
SpecResolve == InitSpecResolve /\ [][NextResolve]_vars

InitSpecCodec ==
    IdleNorm /\ IdleFetch /\ IdleIntersect /\ IdleResolve /\ InitCodec /\ IdleQuery
NextCodec == CodecEncode \/ CodecDecodeGeojson \/ CodecDecodePolygons
SpecCodec == InitSpecCodec /\ [][NextCodec]_vars

InitSpecQuery ==
    IdleNorm /\ IdleFetch /\ IdleIntersect /\ IdleResolve /\ IdleCodec /\ InitQuery
NextQuery == QueryPost \/ QueryRaise \/ QueryReturn
SpecQuery == InitSpecQuery /\ [][NextQuery]_vars

\* one request: either /intersect is called or the resolver is
InitSpecRequest ==
    /\ IdleNorm /\ IdleFetch /\ IdleCodec /\ IdleQuery
    /\ \/ InitIntersect /\ IdleResolve
       \/ IdleIntersect /\ InitResolve
NextRequest ==
    \/ IntersectValidate \/ IntersectAttempt
    \/ ResolveStart \/ ResolveNextId \/ ResolveTier \/ ResolveCollect \/ ResolveUnion
SpecRequest == InitSpecRequest /\ [][NextRequest]_vars

(***************************************************************************)
(* Properties of fetch_all_features (SpecFetch).                           *)
(***************************************************************************)
RECURSIVE FeatureCount(_, _)
\* the number of features of the first n responses
FeatureCount(ps, n) ==
    IF n = 0 THEN 0 ELSE FeatureCount(ps, n - 1) + Len(ps[n].features)

RECURSIVE Concatenated(_, _)
\* the features of the first n responses, in order
Concatenated(ps, n) ==
    IF n = 0 THEN << >> ELSE Concatenated(ps, n - 1) \o ps[n].features

IsPage(resp) == resp.http_ok /\ ~resp.error

\* C1: pages are requested one after another from offset 0; a further page
\* is requested exactly when the page just received has exceededTransferLimit
\* and at least one feature; each request's resultOffset is the number of
\* features of all earlier pages; the call returns the concatenation of the
\* features of all pages received, in request order.
C1_Pagination ==
    \A c \in Calls :
        /\ Len(pages[c]) <= Len(sent[c])
        /\ Len(sent[c]) <= Len(pages[c]) + 1
        /\ (Len(sent[c]) = Len(pages[c]) + 1) = (f_pc[c] = "await")
        /\ \A k \in 1..Len(sent[c]) : sent[c][k] = FeatureCount(pages[c], k - 1)
        /\ \A k \in 1..Len(pages[c]) :
              IsPage(pages[c][k]) =>
                  ((Len(sent[c]) > k \/ f_pc[c] = "loop")
                      = (pages[c][k].exceeded /\ Len(pages[c][k].features) >= 1))
        /\ f_pc[c] = "returned" =>
              /\ \A k \in 1..Len(pages[c]) : IsPage(pages[c][k])
              /\ f_result[c] = [status |-> "returned",
                                value |-> Concatenated(pages[c], Len(pages[c]))]

\* C1 witness: flags true, true, false; pages of 1, 2 and 1 features
C1_Witness ==
    /\ f_pc[1] = "returned"
    /\ Len(pages[1]) = 3
    /\ pages[1][1].exceeded /\ pages[1][2].exceeded /\ ~pages[1][3].exceeded
    /\ sent[1] = <<0, 1, 3>>
    /\ f_result[1].value = <<"a", "b", "a", "b">>

\* C7: a response with a non-success HTTP status, or with an error key in
\* its payload whatever the status, fails the call: it is the last response,
\* no request follows it, the call has raised and hands no features over.
C7_FetchFailure ==
    \A c \in Calls : \A k \in 1..Len(pages[c]) :
        (~pages[c][k].http_ok \/ pages[c][k].error) =>
            /\ k = Len(pages[c])
            /\ Len(sent[c]) = k
            /\ f_pc[c] = "raised"
            /\ f_result[c] = [status |-> "raised", value |-> << >>]

\* C7 witness: the second response is a 200 with an error key, after a page
\* whose features had been accumulated
C7_Witness ==
    /\ f_pc[1] = "raised"
    /\ Len(pages[1]) = 2
    /\ pages[1][2].http_ok /\ pages[1][2].error
    /\ features[1] # << >>
    /\ f_result[1].value = << >>

\* C20: against a service that answers each request and sends no feature
\* once the offset has reached the number of matching features,
\* fetch_all_features eventually returns, even with exceededTransferLimit
\* true on every page; a page without features ends the loop, no request
\* follows it.
C20_Terminates ==
    \A c \in Calls :
        /\ <>(f_pc[c] = "returned")
        /\ [](\A k \in 1..Len(pages[c]) :
                 (IsPage(pages[c][k]) /\ pages[c][k].features = << >>) =>
                     /\ k = Len(pages[c])
                     /\ Len(sent[c]) = k
                     /\ f_pc[c] = "returned")

\* C20 witness: the flag was true on every page and the call returned on the
\* empty page sent once the offset had reached the number of features
C20_Witness ==
    /\ f_pc[1] = "returned"
    /\ Len(pages[1]) = 3
    /\ \A k \in 1..3 : pages[1][k].exceeded
    /\ sent[1][3] = MatchingCount
    /\ pages[1][3].features = << >>
    /\ Len(f_result[1].value) = MatchingCount

\* the offsets a call running alone sends when its first n requests are
\* answered with the responses ps
SoloOffsets(ps, n) == [k \in 1..n |-> FeatureCount(ps, k - 1)]

\* everything the model keeps of call c
CallState(c) == <<f_pc[c], result_offset[c], features[c], sent[c], pages[c], f_result[c]>>

\* C23: two calls of fetch_all_features interleaved at their awaits share no
\* mutable state.  Within a call at most one request is outstanding and a
\* request follows the response to the one before it; a step of one call
\* changes nothing of the other; and each call's offsets and returned
\* features are those of a call running alone that is answered as it was.
C23_NoSharedState ==
    /\ [](\A c \in Calls :
            /\ Len(sent[c]) \in {Len(pages[c]), Len(pages[c]) + 1}
            /\ sent[c] = SoloOffsets(pages[c], Len(sent[c]))
            /\ f_pc[c] = "returned" =>
                  f_result[c].value = Concatenated(pages[c], Len(pages[c])))
    /\ [][\A c \in Calls :
            /\ sent'[c] # sent[c] =>
                  /\ Len(pages[c]) = Len(sent[c])
                  /\ Len(sent'[c]) = Len(sent[c]) + 1
            /\ CallState(c)' # CallState(c) =>
                  \A d \in Calls \ {c} : CallState(d)' = CallState(d)]_vars

\* C23 witness: both calls have a request outstanding at once, call 1 its
\* second and call 2 its third, after call 2 was answered between two
\* steps of call 1; their pages and so their offsets differ
C23_Witness ==
    /\ f_pc[1] = "await" /\ f_pc[2] = "await"
    /\ sent[1] = <<0, 2>>
    /\ sent[2] = <<0, 1, 2>>
    /\ features[1] # features[2]

(***************************************************************************)
(* Properties of intersect (SpecIntersect).                                *)
(***************************************************************************)
\* the calls made for the layer id at position j of the request
QueriesOf(j) == SelectSeq(i_queries, LAMBDA e : e.idx = j)

\* the layer id at position j was queried and its last query returned
Succeeded(j) ==
    /\ QueriesOf(j) # << >>
    /\ ~QueriesOf(j)[Len(QueriesOf(j))].outcome.raised

\* C2: when one layer of a request over several layer ids fails all three
\* attempts, every sibling layer is still queried, and the response carries
\* the LayerResult of each sibling whose queries succeeded together with the
\* upstream error naming the failing layer, whatever the order of the ids.
C2_SiblingsSurvive ==
    (/\ i_pc = "done"
     /\ i_response.kind = "upstream"
     /\ Len(i_req.layer_ids) >= 2
     /\ \A a, b \in 1..Len(i_req.layer_ids) :
            a # b => i_req.layer_ids[a] # i_req.layer_ids[b]) =>
        \A j \in 1..Len(i_req.layer_ids) :
            j # i_idx =>
                /\ QueriesOf(j) # << >>
                /\ Succeeded(j) =>
                      \E k \in 1..Len(i_response.layers) :
                          i_response.layers[k].id = i_req.layer_ids[j]

\* what attempt k must ask for layer lid: the geometry type and the fields
ExpectedShape(k, lid) ==
    CASE k = 1 -> <<"esriGeometryPolygon",
                    IF lid = "A" THEN <<"f1", "f2">> ELSE <<"*">> >>
      [] k = 2 -> <<"esriGeometryPolygon", <<"*">> >>
      [] OTHER -> <<"esriGeometryEnvelope", <<"*">> >>

\* C3: per requested layer the attempts are polygon with the configured
\* fields, polygon with all fields, envelope with all fields, in that order;
\* attempt k+1 is made exactly when attempt k raised (a success with no
\* feature ends the cascade); after a failed first and a successful second
\* attempt the layer's features are those of the second and no envelope
\* query is made.
C3_FallbackOrder ==
    /\ \A n \in 1..Len(i_queries) :
        LET e == i_queries[n]
        IN  /\ e.attempt \in 1..3
            /\ <<e.query.geometryType, e.query.outFields>>
                   = ExpectedShape(e.attempt, i_req.layer_ids[e.idx])
            /\ e.query.layer = i_req.layer_ids[e.idx]
            /\ IF n = 1 THEN e.idx = 1 /\ e.attempt = 1
               ELSE LET d == i_queries[n - 1]
                    IN  IF d.outcome.raised
                        THEN e.idx = d.idx /\ e.attempt = d.attempt + 1
                        ELSE e.idx = d.idx + 1 /\ e.attempt = 1
    /\ (i_queries # << >> /\ i_pc = "query") =>
          LET d == i_queries[Len(i_queries)]
          IN  IF d.outcome.raised
              THEN i_idx = d.idx /\ i_attempt = d.attempt + 1
              ELSE i_idx = d.idx + 1 /\ i_attempt = 1
    /\ (i_queries # << >> /\ i_pc = "done") =>
          LET d == i_queries[Len(i_queries)]
          IN  IF d.outcome.raised
              THEN d.attempt = 3 /\ i_response.kind = "upstream"
              ELSE d.idx = Len(i_req.layer_ids) /\ i_response.kind = "layers"
    /\ \A j \in 1..Len(i_results) :
          LET qs == QueriesOf(j)
          IN  (Len(qs) = 2 /\ qs[1].outcome.raised /\ ~qs[2].outcome.raised) =>
                  /\ qs[2].query.geometryType = "esriGeometryPolygon"
                  /\ i_results[j].id = i_req.layer_ids[j]
                  /\ i_results[j].features = OutFeats(qs[2].outcome.value)
    \* a layer with a result was given the features of its one successful
    \* attempt, the last
    /\ \A j \in 1..Len(i_results) :
          /\ Succeeded(j)
          /\ i_results[j].features
                = OutFeats(QueriesOf(j)[Len(QueriesOf(j))].outcome.value)

\* C3 witness: the first attempt of the second layer failed, the second
\* returned features, and the request is answered without an envelope query
C3_Witness ==
    /\ i_pc = "done"
    /\ i_response.kind = "layers"
    /\ Len(i_results) = 2
    /\ Len(QueriesOf(2)) = 2
    /\ QueriesOf(2)[1].outcome.raised
    /\ QueriesOf(2)[2].outcome.value = <<BadFeature, GoodFeature>>
    /\ Len(i_results[2].features) = 1

\* C8: with an id outside the configured layer set the request is answered
\* 400, the detail lists the unknown ids in request order, and no upstream
\* query is made for any layer.
C8_UnknownLayers ==
    (\E j \in 1..Len(i_req.layer_ids) : i_req.layer_ids[j] \notin {"A", "B"}) =>
        /\ i_queries = << >>
        /\ i_pc \in {"start", "done"}
        /\ i_pc = "done" =>
              /\ i_response.status = 400
              /\ i_response.kind = "unknown_layers"
              /\ i_response.ids
                    = SelectSeq(i_req.layer_ids, LAMBDA lid : lid \notin {"A", "B"})
              /\ i_response.layers = << >>

\* C8 witness: a known id first, then an unknown one
C8_Witness ==
    /\ i_pc = "done"
    /\ i_req.layer_ids = <<"A", "X">>
    /\ ~i_req.parcel.empty
    /\ i_response.status = 400
    /\ i_response.ids = <<"X">>

\* C11: when every requested layer's query succeeds, the response has one
\* LayerResult per entry of layer_ids in the caller's order: the i-th result
\* carries the i-th requested id, also when an id is requested twice.  (A
\* request without a parcel is rejected before any query and is not the
\* claim's case.)
C11_OneResultPerId ==
    (/\ i_pc = "done"
     /\ ~i_req.parcel.empty
     /\ \A j \in 1..Len(i_req.layer_ids) : Succeeded(j)) =>
        /\ i_response.status = 200
        /\ i_response.kind = "layers"
        /\ Len(i_response.layers) = Len(i_req.layer_ids)
        /\ \A j \in 1..Len(i_req.layer_ids) :
              i_response.layers[j].id = i_req.layer_ids[j]

\* C11 witness: the same id twice, with different answers of the service
C11_Witness ==
    /\ i_pc = "done"
    /\ i_req.layer_ids = <<"B", "B">>
    /\ Succeeded(1) /\ Succeeded(2)
    /\ Len(i_response.layers) = 2
    /\ i_response.layers[1].features # i_response.layers[2].features

\* the three attempts of the layer id at position j all raised
FailedAll(j) ==
    /\ Len(QueriesOf(j)) = 3
    /\ \A k \in 1..3 : QueriesOf(j)[k].outcome.raised

\* C12: when all three attempts of a layer fail the request is answered 502;
\* the detail names that layer id and carries the error of each of the three
\* attempts in attempt order (poly/conf, poly/*, env/*); no LayerResult of
\* that layer is returned.  The request is answered 502 in no other case.
C12_UpstreamFailure ==
    /\ (i_pc = "done" /\ i_response.status = 502) => FailedAll(i_idx)
    /\ \A j \in 1..Len(i_req.layer_ids) :
        FailedAll(j) =>
            /\ i_pc = "done"
            /\ i_response.status = 502
            /\ i_response.kind = "upstream"
            /\ i_response.layer = i_req.layer_ids[j]
            /\ i_response.errors
                  = << [tag |-> "poly/conf", error |-> QueriesOf(j)[1].outcome.error],
                       [tag |-> "poly/*", error |-> QueriesOf(j)[2].outcome.error],
                       [tag |-> "env/*", error |-> QueriesOf(j)[3].outcome.error] >>
            /\ i_response.layers = << >>
            /\ Len(i_results) = j - 1

\* C12 witness: the second layer failed three times with differing errors
\* after the first layer had failed once
C12_Witness ==
    /\ i_pc = "done"
    /\ i_response.status = 502
    /\ i_idx = 2
    /\ QueriesOf(1)[1].outcome.raised
    /\ FailedAll(2)
    /\ QueriesOf(2)[1].outcome.error # QueriesOf(2)[2].outcome.error

\* C18: a request whose parcel geometry is empty (missing, or without ring
\* coordinates) is answered with a client input error and no upstream query
\* is made for it; every polygon query made carries at least one ring.
C18_EmptyParcelRejected ==
    /\ (i_req.parcel.empty \/ i_req.parcel.coordinates = << >>) =>
          /\ i_queries = << >>
          /\ i_pc = "done" => i_response.status = 400
    /\ \A n \in 1..Len(i_queries) :
          i_queries[n].query.geometryType = "esriGeometryPolygon" =>
              i_queries[n].query.geometry.rings # << >>

\* the rings of a feature's geometry that have at least four points
LongRings(f) == SelectSeq(f.geometry.rings, LAMBDA ring : Len(ring) >= 4)

\* a returned feature's geometry cannot be decoded: it has no ring, every
\* ring is shorter than four points, or a ring to convert has a point that
\* is not a pair of ordinates
Undecodable(f) ==
    \/ f.geometry.rings = << >>
    \/ LongRings(f) = << >>
    \/ \E k \in 1..Len(LongRings(f)) :
           \E m \in 1..Len(LongRings(f)[k]) : Len(LongRings(f)[k][m]) # 2

\* the features the query that answered layer position j returned
ReturnedFor(j) == QueriesOf(j)[Len(QueriesOf(j))].outcome.value

\* C22: a returned feature whose geometry cannot be decoded is skipped
\* without failing the layer or the request: the layer whose query returned
\* still gets its LayerResult, which holds every other returned feature, in
\* service order, each with its attributes unmodified and its rings of four
\* points or more; a request all of whose layers returned is answered 200
\* with these results.
C22_UndecodableSkipped ==
    /\ \A j \in 1..Len(i_req.layer_ids) :
          Succeeded(j) =>
              LET kept == SelectSeq(ReturnedFor(j), LAMBDA f : ~Undecodable(f))
              IN  /\ j <= Len(i_results)
                  /\ i_results[j].id = i_req.layer_ids[j]
                  /\ Len(i_results[j].features) = Len(kept)
                  /\ \A n \in 1..Len(kept) :
                        /\ i_results[j].features[n].attrs = kept[n].attributes
                        /\ i_results[j].features[n].geometry.type = "Polygon"
                        /\ i_results[j].features[n].geometry.coordinates
                              = LongRings(kept[n])
    /\ (/\ i_pc = "done"
        /\ i_queries # << >>
        /\ \A j \in 1..Len(i_req.layer_ids) : Succeeded(j)) =>
          /\ i_response.status = 200
          /\ i_response.layers = i_results

\* C22 witness: one layer returned a feature with a malformed point, one with
\* a short and a usable ring, one without rings and a good one; the next
\* layer returned a feature with a short ring only and a good one; the
\* request is answered with the decodable features of each
C22_Witness ==
    /\ i_pc = "done"
    /\ i_response.status = 200
    /\ Len(i_req.layer_ids) = 2
    /\ Succeeded(1) /\ Succeeded(2)
    /\ ReturnedFor(1) = <<MalformedFeature, MixedFeature, NoRingsFeature, GoodFeature>>
    /\ ReturnedFor(2) = <<BadFeature, GoodFeature>>
    /\ Len(i_response.layers[1].features) = 2
    /\ i_response.layers[1].features[1].attrs = "attrs5"
    /\ i_response.layers[1].features[2].attrs = "attrs1"
    /\ Len(i_response.layers[2].features) = 1
    /\ i_response.layers[2].features[1].attrs = "attrs1"

(***************************************************************************)
(* Properties of resolve_parcels and /parcel/resolve (SpecResolve).        *)
(***************************************************************************)
\* an outcome that gives the identifier its features
IsHit(o) == ~o.raised /\ o.value # << >>

\* the features of the first tier of log that returned at least one
FirstHit(log) ==
    IF \E k \in 1..Len(log) : IsHit(log[k].outcome)
    THEN log[CHOOSE k \in 1..Len(log) :
                /\ IsHit(log[k].outcome)
                /\ \A j \in 1..(k - 1) : ~IsHit(log[j].outcome)].outcome.value
    ELSE << >>

\* C4: per identifier the tiers are queried in the order combined field,
\* lot plus plan without spaces, lot plus exact plan; the first only with a
\* combined field configured; a tier only after every earlier one raised or
\* returned nothing; the identifier's features are those of the first tier
\* that returned at least one.
C4_TierOrder ==
    /\ \A n \in 1..Len(r_queries) :
          /\ r_queries[n].tier \in 1..3
          /\ r_queries[n].tier = 1 => r_settings.CADASTRE_LOTPLAN_FIELD
          /\ r_queries[n].where.using
                = (CASE r_queries[n].tier = 1 -> "lotplan"
                     [] r_queries[n].tier = 2 -> "lot+plan, plan without spaces"
                     [] OTHER -> "lot+plan")
          /\ n > 1 =>
                \/ /\ r_queries[n].idx = r_queries[n - 1].idx
                   /\ r_queries[n].tier = r_queries[n - 1].tier + 1
                \/ /\ r_queries[n].idx > r_queries[n - 1].idx
                   /\ r_queries[n].tier
                         = (IF r_settings.CADASTRE_LOTPLAN_FIELD THEN 1 ELSE 2)
    /\ r_queries # << >> =>
          r_queries[1].tier = (IF r_settings.CADASTRE_LOTPLAN_FIELD THEN 1 ELSE 2)
    \* the log of the identifier at hand is the tail of the calls made
    /\ \A k \in 1..Len(r_log) :
          /\ r_log[k].tier = r_queries[Len(r_queries) - Len(r_log) + k].tier
          /\ k < Len(r_log) => ~IsHit(r_log[k].outcome)
    /\ r_pc = "tier" => r_feats = << >>
    /\ r_pc = "collect" =>
          /\ r_log # << >>
          /\ r_feats = FirstHit(r_log)
          /\ (r_feats = << >>) => r_log[Len(r_log)].tier = 3
    /\ (r_pc \in {"ident", "union", "done"} /\ r_used # << >>) =>
          r_used[Len(r_used)].feats = FirstHit(r_log)

\* C4 witness: the combined-field tier raised, the second returned nothing,
\* the third returned a feature, which is the one used
C4_Witness ==
    /\ r_pc = "collect"
    /\ Len(r_log) = 3
    /\ r_log[1].tier = 1 /\ r_log[1].outcome.raised
    /\ r_log[2].tier = 2 /\ ~r_log[2].outcome.raised /\ r_log[2].outcome.value = << >>
    /\ r_log[3].outcome.value = <<CFeatureA>>
    /\ r_feats = <<CFeatureA>>

Answered == r_pc = "done" /\ r_response.kind \in {"ok", "returned"}

\* C5: with at least one polygon collected, a union that raises or gives an
\* unexpected geometry type still yields a non-null parcel: the multi-polygon
\* assembled from all the collected polygons, or, if that assembly fails too,
\* the first collected polygon; matched is unchanged and the request does
\* not fail.
C5_UnionCascade ==
    (r_pc = "done" /\ r_geoms # << >>) =>
        /\ Answered
        /\ r_response.matched = r_matched
        /\ r_response.parcel # NoParcel
        /\ r_union.union \notin {"Polygon", "MultiPolygon"} =>
              IF r_union.assemble = "ok"
              THEN /\ r_response.parcel.type = "MultiPolygon"
                   /\ r_response.parcel.source = "assembled"
                   /\ r_response.parcel.polys = r_geoms
              ELSE /\ r_response.parcel.source = "first"
                   /\ r_response.parcel.polys = <<r_geoms[1]>>

\* C9: /parcel/resolve on a text that normalize_lotplan maps to the empty
\* list is answered 400 and makes no call to the feature service.
C9_UnparseableRejected ==
    (r_req.entry = "endpoint" /\ normalize_lotplan(r_req.text) = << >>) =>
        /\ r_queries = << >>
        /\ r_pc \in {"start", "done"}
        /\ r_pc = "done" =>
              /\ r_response.status = 400
              /\ r_response.kind = "input_error"

\* C9 witness: "???" is rejected although a cadastre endpoint is configured
C9_Witness ==
    /\ r_pc = "done"
    /\ r_req.entry = "endpoint"
    /\ r_req.text = <<"?", "?", "?">>
    /\ r_settings.CADASTRE_URL
    /\ r_response.status = 400

\* some feature used for an identifier gave a polygon
SomePolygon ==
    \E k \in 1..Len(r_used) : \E j \in 1..Len(r_used[k].feats) :
        _esri_polygon_to_polygons(r_used[k].feats[j].geometry) # << >>

\* C10: resolve_parcels returns a null parcel with an empty matched exactly
\* when no polygon was collected from any identifier; with at least one
\* polygon collected the parcel is non-null and matched is non-empty.
C10_NullIffNothingCollected ==
    Answered =>
        /\ (r_geoms # << >>) = SomePolygon
        /\ (r_response.parcel = NoParcel /\ r_response.matched = << >>) = ~SomePolygon
        /\ SomePolygon => (r_response.parcel # NoParcel /\ r_response.matched # << >>)

\* C10 witness: a tier returned a feature, but its ring is degenerate, so
\* nothing was collected and the parcel is null
C10_Witness ==
    /\ Answered
    /\ r_used # << >>
    /\ r_used[1].feats = <<CFeatureFlat>>
    /\ r_response.parcel = NoParcel
    /\ r_response.matched = << >>

\* the identifiers of the request that carry a slash, by position
Queryable == {j \in 1..Len(r_lotplans) : HasSlash(r_lotplans[j])}

RECURSIVE GeomsOf(_)
\* the polygons of the features used, identifier after identifier
GeomsOf(used) ==
    IF used = << >> THEN << >>
    ELSE CollectGeoms(Head(used).feats) \o GeomsOf(Tail(used))

RECURSIVE MatchedOf(_)
\* the provenance records of the features used
MatchedOf(used) ==
    IF used = << >> THEN << >>
    ELSE CollectMatched(Head(used).feats, r_lotplans[Head(used).idx])
         \o MatchedOf(Tail(used))

\* C13: in resolve_parcels a fetch error of a tier is caught and counts as no
\* match; an identifier whose tiers all fail or return nothing does not stop
\* the others: every identifier is queried, and the polygons and matched
\* records of every identifier that matched are in the result.
C13_IdentifiersIsolated ==
    \* a raised tier leaves the request running, with no features from it
    /\ (r_log # << >> /\ r_log[Len(r_log)].outcome.raised) =>
          /\ r_response.kind \in {"none", "ok", "returned"}
          /\ r_pc \in {"tier", "collect"} => r_feats = << >>
    /\ r_queries # << >> => r_response.kind \in {"none", "ok", "returned"}
    /\ r_pc \in {"union", "done"} /\ r_response.kind \in {"none", "ok", "returned"} =>
          /\ r_geoms = GeomsOf(r_used)
          /\ r_matched = MatchedOf(r_used)
          /\ \A j \in Queryable : \E n \in 1..Len(r_queries) : r_queries[n].idx = j
          /\ Len(r_used) = Cardinality(Queryable)
          /\ \A k \in 1..Len(r_used) :
                /\ r_used[k].idx \in Queryable
                /\ k > 1 => r_used[k - 1].idx < r_used[k].idx
    \* and what was accumulated is what is returned
    /\ Answered =>
          /\ r_geoms # << >> => r_response.matched = r_matched
          /\ r_response.parcel.source = "union" => r_response.parcel.polys = r_geoms

\* C13 witness: the first identifier found nothing in any tier; the second,
\* after a tier that raised, matched, and its polygon is the result
C13_Witness ==
    /\ Answered
    /\ Len(r_used) = 2
    /\ r_used[1].feats = << >>
    /\ Len(r_log) = 2
    /\ r_log[1].outcome.raised
    /\ r_used[2].feats = <<CFeatureA>>
    /\ Len(r_response.matched) = 1
    /\ Len(r_response.parcel.polys) = 1

\* C14: an upstream failure is not swallowed at the top level: when every
\* tier queried fails with a fetch error for every identifier, the caller of
\* resolve gets an upstream error, not a result reporting no match.
C14_FailureSurfaced ==
    (r_pc = "done" /\ r_queries # << >> /\ ~r_anyok) =>
        r_response.kind \notin {"ok", "returned"}

\* C19: without a cadastre endpoint configured resolve_parcels fails with a
\* configuration error for every identifier list, the empty one too, before
\* any upstream call and without a partial result.
C19_NotConfigured ==
    ~r_settings.CADASTRE_URL =>
        /\ r_queries = << >>
        /\ r_geoms = << >>
        /\ r_pc \in {"start", "done"}
        /\ r_pc = "done" =>
              /\ r_response.parcel = NoParcel
              /\ r_response.matched = << >>
              /\ IF r_req.entry = "direct"
                 THEN r_response.kind = "raised"
                 ELSE \/ r_response.kind = "server_error" /\ r_response.status = 500
                      \/ /\ r_response.kind = "input_error"
                         /\ normalize_lotplan(r_req.text) = << >>

\* C19 witness: resolve_parcels([]) without an endpoint raises
C19_Witness ==
    /\ r_pc = "done"
    /\ ~r_settings.CADASTRE_URL
    /\ r_req.entry = "direct"
    /\ r_req.lotplans = << >>
    /\ r_response.kind = "raised"

(***************************************************************************)
(* Properties of normalize_lotplan (SpecNorm).                             *)
(***************************************************************************)
\* C6: normalize_lotplan is idempotent: a non-empty result, normalized
\* again, is the same result, whichever shape matched the text.
C6_Idempotent ==
    (normalized # Pending /\ normalized # << >>) =>
        normalize_lotplan(normalized[1]) = normalized

(***************************************************************************)
(* Properties of the geometry conversions (SpecCodec).                     *)
(***************************************************************************)
\* a ring is closed and has at least four points
ClosedRing(ring) == Len(ring) >= 4 /\ ring[1] = ring[Len(ring)]

\* a valid exchange polygon: an outer ring, and every ring closed with at
\* least four points
ValidPolygon(g) ==
    /\ g.type = "Polygon"
    /\ g.coordinates # << >>
    /\ \A k \in 1..Len(g.coordinates) : ClosedRing(g.coordinates[k])

\* the decoded polygon has the rings of g in the order of g
SameRings(g) ==
    IF c_decoder = "esri_polygon_to_geojson"
    THEN c_geojson = [type |-> "Polygon", coordinates |-> g.coordinates]
    ELSE /\ Len(c_polys) = 1
         /\ c_polys[1].geom_type = "Polygon"
         /\ ~c_polys[1].repaired
         /\ <<c_polys[1].outer>> \o c_polys[1].holes = g.coordinates

\* shapely takes the polygon as it is built from the rings of g
Accepted(g) == BuiltValid(Head(g.coordinates), Tail(g.coordinates))

\* C15 as stated: every valid polygon, encoded and decoded again, comes back
\* as a polygon with the same rings in the same order.
C15_RoundTrip_AsStated ==
    (c_pc = "decoded" /\ ValidPolygon(c_poly)) => SameRings(c_poly)

\* C15: a valid polygon, encoded and decoded again, comes back with the same
\* rings in the same order from esri_polygon_to_geojson always, and from
\* _esri_polygon_to_polygons when shapely finds the polygon valid as built;
\* a polygon it does not find valid comes back repaired or not at all.
C15_RoundTrip ==
    (c_pc = "decoded" /\ ValidPolygon(c_poly)) =>
        IF c_decoder = "_esri_polygon_to_polygons" /\ ~Accepted(c_poly)
        THEN c_polys = << >> \/ c_polys[1].repaired
        ELSE SameRings(c_poly)

\* C15 witness: an outer ring and a hole inside it, through
\* _esri_polygon_to_polygons
C15_Witness ==
    /\ c_pc = "decoded"
    /\ c_decoder = "_esri_polygon_to_polygons"
    /\ c_poly.coordinates = <<RingBig, RingB>>
    /\ c_polys = <<[outer |-> RingBig, holes |-> <<RingB>>, geom_type |-> "Polygon",
                    repaired |-> FALSE]>>

(***************************************************************************)
(* The canonical form of an identifier (SpecNorm).                         *)
(***************************************************************************)
\* one to four upper-case letters followed by one to seven digits
CanonicalPlan(plan) ==
    LET a == SkipWhile(plan, 1, UpperLetters)
        c == SkipWhile(plan, a, Digits)
    IN  /\ a - 1 >= 1 /\ a - 1 <= 4
        /\ c - a >= 1 /\ c - a <= 7
        /\ c = Len(plan) + 1

\* LOT/PLAN with lot and plan in upper case and the plan well formed
Canonical(t) ==
    /\ HasSlash(t)
    /\ LET lot == SubSeq(t, 1, FirstSlash(t) - 1)
           plan == SubSeq(t, FirstSlash(t) + 1, Len(t))
       IN  /\ Upper(lot) = lot
           /\ Upper(plan) = plan
           /\ \A k \in 1..Len(plan) : plan[k] \notin Whitespace
           /\ CanonicalPlan(plan)

\* C16: every non-empty result of normalize_lotplan is a single string
\* LOT/PLAN, lot and plan in upper case, the plan without whitespace and made
\* of one to four letters followed by one to seven digits, whichever shape
\* produced it.
C16_Canonical ==
    (normalized # Pending /\ normalized # << >>) =>
        /\ Len(normalized) = 1
        /\ Canonical(normalized[1])

(***************************************************************************)
(* Properties of arcgis_query (SpecQuery).                                 *)
(***************************************************************************)
\* C17: whatever parameter map the caller gives, the request of arcgis_query
\* is a POST to <endpoint>/query that asks for JSON (f = json) and whose
\* where is the caller's where if one was given and 1=1 otherwise.
C17_RequestShape ==
    q_pc \in {"await", "returned", "raised"} =>
        /\ q_sent.method = "POST"
        /\ q_sent.url = RStripSlash(q_url) \o <<"/", "query">>
        /\ q_sent.data["f"] = StrV("json")
        /\ q_sent.data["where"]
              = (IF "where" \in DOMAIN q_params THEN q_params["where"] ELSE StrV("1=1"))

(***************************************************************************)
(* Properties of one request, to either handler (SpecRequest).             *)
(***************************************************************************)
\* the tiers queried for the identifier at position j of lotplans, in order
TiersOf(j) ==
    LET qs == SelectSeq(r_queries, LAMBDA e : e.idx = j)
    IN  [k \in 1..Len(qs) |-> qs[k].tier]

\* the attempts made for the layer id at position j of layer_ids, in order
AttemptsOf(j) == [k \in 1..Len(QueriesOf(j)) |-> QueriesOf(j)[k].attempt]

\* no element of the sequence of numbers is repeated or comes back
StrictlyIncreasing(ns) == \A k \in 1..(Len(ns) - 1) : ns[k] < ns[k + 1]

\* C21: within one request no tier is attempted twice: intersect calls
\* fetch_all_features at most 3 times per entry of layer_ids, resolve_parcels
\* at most 3 times per entry of lotplans, at most 2 without a combined
\* lot-plan field, and a tier that failed or returned nothing is not
\* attempted again.
C21_NoRetry ==
    /\ \A j \in 1..Len(i_req.layer_ids) :
          /\ Len(AttemptsOf(j)) <= 3
          /\ StrictlyIncreasing(AttemptsOf(j))
    /\ \A n \in 1..Len(i_queries) : i_queries[n].idx \in 1..Len(i_req.layer_ids)
    /\ \A j \in 1..Len(r_lotplans) :
          /\ Len(TiersOf(j)) <= (IF r_settings.CADASTRE_LOTPLAN_FIELD THEN 3 ELSE 2)
          /\ StrictlyIncreasing(TiersOf(j))
    /\ \A n \in 1..Len(r_queries) : r_queries[n].idx \in 1..Len(r_lotplans)

\* C21 witness: without a combined field both remaining tiers found nothing
\* for each of two identifiers, and the resolver returned after four calls
C21_Witness ==
    /\ r_pc = "done"
    /\ ~r_settings.CADASTRE_LOTPLAN_FIELD
    /\ Len(r_lotplans) = 2
    /\ TiersOf(1) = <<2, 3>>
    /\ TiersOf(2) = <<2, 3>>
    /\ ~r_anyok
    /\ Len(r_queries) = 4

\* C21, the same for /intersect: the three attempts of a layer failed and
\* the request ended
C21_WitnessIntersect ==
    /\ i_pc = "done"
    /\ AttemptsOf(1) = <<1, 2, 3>>
    /\ Len(i_queries) = 3

(***************************************************************************)
(* The provenance records of resolve_parcels (SpecResolve).                *)
(***************************************************************************)
RECURSIVE FeatureOrigins(_, _)
\* for every polygon collected from feats, in feature order, the position j
\* of the identifier and the attributes of the feature it came from
FeatureOrigins(feats, j) ==
    IF feats = << >> THEN << >>
    ELSE [p \in 1..Len(_esri_polygon_to_polygons(Head(feats).geometry)) |->
             [idx |-> j, attributes |-> Head(feats).attributes]]
         \o FeatureOrigins(Tail(feats), j)

RECURSIVE Origins(_)
\* the same over the identifiers in their order
Origins(used) ==
    IF used = << >> THEN << >>
    ELSE FeatureOrigins(Head(used).feats, Head(used).idx) \o Origins(Tail(used))

\* the text t is the value the service sent for an attribute
IsServiceValue(t, v) == ~v.null /\ t = v.text

\* C24: on every return of resolve_parcels matched holds one record per
\* collected polygon, in collection order; a record's lotplan is the
\* canonical LOT/PLAN of the identifier whose query returned the feature,
\* its lot and plan are the service's attribute values when the feature has
\* them and the normalized lot and plan otherwise.  So one identifier
\* answered with one feature of one ring gives one polygon, of type
\* Polygon, and one record with the identifier's lotplan.
C24_Provenance ==
    Answered =>
        LET from == Origins(r_used)
        IN  /\ Len(r_response.matched) = Len(r_geoms)
            /\ Len(r_response.matched) = Len(from)
            /\ \A n \in 1..Len(from) :
                  LET rec == r_response.matched[n]
                      lp == r_lotplans[from[n].idx]
                      at == from[n].attributes
                  IN  /\ rec.lotplan = LotPlan(LotU(lp), PlanU(lp))
                      /\ IF "lot" \in at.has
                         THEN IsServiceValue(rec.lot, at.lot)
                         ELSE rec.lot = LotU(lp)
                      /\ IF "plan" \in at.has
                         THEN IsServiceValue(rec.plan, at.plan)
                         ELSE rec.plan = PlanU(lp)
            /\ (Len(r_used) = 1 /\ r_used[1].feats = <<CFeatureA>>) =>
                  /\ Len(r_geoms) = 1
                  /\ r_geoms[1].geom_type = "Polygon"
                  /\ r_response.parcel # NoParcel
                  /\ Len(r_response.matched) = 1
                  /\ r_response.matched[1].lotplan
                        = LotPlan(LotU(r_lotplans[r_used[1].idx]),
                                  PlanU(r_lotplans[r_used[1].idx]))
====
